---- MODULE Spec2Model ----
(***************************************************************************)
(* Remora pre-execution core: the load balancer (load_balancer.rs) and the *)
(* dependency-parallel proxy (proxy.rs).                                   *)
(*                                                                         *)
(* Spec       : LoadBalancer::run with its ingress, consensus and proxy    *)
(*              channels (tokio bounded mpsc).                             *)
(* ProxySpec  : one Proxy::run with its transaction channel, dependency    *)
(*              controller, spawned tasks (tokio Notify) and the effects   *)
(*              channel.                                                   *)
(* ProxyPanicSpec : ProxySpec with an executor that may panic.             *)
(* ProxyFairSpec  : ProxySpec under the fairness of the tokio runtime and  *)
(*              of a clean shutdown, for the liveness of the proxy.        *)
(***************************************************************************)
EXTENDS Naturals, Integers, Sequences, FiniteSets, TLC

(* ---------------------------- bounds ----------------------------------- *)
MaxTasks == 3      \* transactions submitted to one proxy
NumObjects == 2    \* distinct object ids
MaxInputs == 2     \* longest input_objects() list
MaxN == 3          \* largest number of proxies tx_proxies.len() explored
MaxTx == 6         \* transactions fed to the ingress channel
ChanCap == 1       \* capacity of every bounded mpsc channel

(* ---------------------------- state ------------------------------------ *)
VARIABLES
    \* ---- load balancer ----
    n,              \* tx_proxies.len()
    nextTx,         \* id of the next transaction the upstream will feed
    ingress,        \* rx_transactions buffer
    ingressClosed,  \* upstream dropped its sender
    lbPc,           \* position of LoadBalancer::run
    i,              \* the counter `i` of LoadBalancer::run
    j,              \* the index `j` of try_other_proxies
    cur,            \* the transaction held by the current loop iteration
    cons,           \* tx_consensus buffer
    consClosed,     \* consensus receiver dropped
    chan,           \* chan[p]: buffer of tx_proxies[p]
    closed,         \* closed[p]: receiver of tx_proxies[p] dropped
    \* ---- history (observations of the channels) ----
    recvLog,        \* transactions returned by rx_transactions.recv(), in order
    consLog,        \* transactions whose tx_consensus.send returned Ok, in order
    proxyLog,       \* proxyLog[p]: transactions whose send to p returned Ok
    consRcvd,       \* transactions the consensus receiver took, in order
    prxRcvd,        \* prxRcvd[p]: transactions the receiver of p took
    attempts        \* every proxy send that returned: <<tx, proxy, ok>>

lbVars == <<n, nextTx, ingress, ingressClosed, lbPc, i, j, cur, cons,
            consClosed, chan, closed, recvLog, consLog, proxyLog, consRcvd,
            prxRcvd, attempts>>

VARIABLES
    \* ---- proxy (one Proxy<E>) ----
    pxIn,           \* rx_transactions buffer of the proxy
    pxInClosed,     \* every sender of the proxy channel dropped
    pxPc,           \* position of Proxy::run: "running" or "returned"
    submitted,      \* number of transactions put on the proxy channel
    task_id,        \* the counter `task_id` of Proxy::run
    obj_map,        \* dependency controller: object id -> signal (0: no entry)
    tPc,            \* tPc[t]: position of the task spawned for task id t
    prior,          \* prior[t]: prior_handles moved into the task
    pIdx,           \* pIdx[t]: index of the prior handle the task awaits
    current,        \* current[t]: current_handles moved into the task
    cIdx,           \* cIdx[t]: index of the current handle fired next
    permit,         \* permit[s]: the Notify of signal s holds a stored permit
    waiters,        \* waiters[s]: tasks queued on the Notify of signal s
    results,        \* tx_results buffer
    resClosed,      \* effects receiver dropped
    execution_result, \* execution_result[t]: what exec_on_ctx returned, until sent
    obj_ids,        \* the Vec `obj_ids` collected for the latest admission
    \* ---- history ----
    footprint,      \* footprint[t]: the set of object ids of task t
    fired,          \* fired[s]: number of notify_one calls on signal s
    waitsOn,        \* waitsOn[t]: the signals returned in prior_handles of t
    sendFailed      \* a tx_results.send returned Err (the warning was logged)

pxVars == <<pxIn, pxInClosed, pxPc, submitted, task_id, obj_map, tPc, prior,
            pIdx, current, cIdx, permit, waiters, results, resClosed,
            execution_result, obj_ids, footprint, fired, waitsOn, sendFailed>>

vars == <<lbVars, pxVars>>

NoTx == 0 - 1

Range(s) == {s[k] : k \in 1 .. Len(s)}

Proxies == 0 .. (n - 1)

(* ---------------------- tokio bounded mpsc ------------------------------ *)
\* Sender::send on a channel whose receiver is gone returns Err.
SendFails(isClosed) == isClosed

\* mutant: the channel is taken to be unbounded
SendReadyUnbounded(buf, isClosed) == ~isClosed

\* Sender::send completes with Ok when the receiver is alive and a slot is free;
\* with the buffer full and the receiver alive the future stays pending.
SendReady(buf, isClosed) == ~isClosed /\ Len(buf) < ChanCap

(* ---------------------- upstream and receivers -------------------------- *)
\* The upstream sends the next transaction into the ingress channel.
Feed ==
    /\ nextTx < MaxTx
    /\ ~ingressClosed
    /\ lbPc # "done"
    /\ Len(ingress) < ChanCap
    /\ ingress' = Append(ingress, nextTx)
    /\ nextTx' = nextTx + 1
    /\ UNCHANGED <<n, ingressClosed, lbPc, i, j, cur, cons, consClosed, chan,
                   closed, recvLog, consLog, proxyLog, consRcvd, prxRcvd,
                   attempts>>
    /\ UNCHANGED pxVars

\* The upstream drops its sender.
CloseIngress ==
    /\ ~ingressClosed
    /\ ingressClosed' = TRUE
    /\ UNCHANGED <<n, nextTx, ingress, lbPc, i, j, cur, cons, consClosed, chan,
                   closed, recvLog, consLog, proxyLog, consRcvd, prxRcvd,
                   attempts>>
    /\ UNCHANGED pxVars

\* The consensus receiver takes the head of its channel.
ConsensusRecv ==
    /\ ~consClosed
    /\ cons # <<>>
    /\ consRcvd' = Append(consRcvd, Head(cons))
    /\ cons' = Tail(cons)
    /\ UNCHANGED <<n, nextTx, ingress, ingressClosed, lbPc, i, j, cur,
                   consClosed, chan, closed, recvLog, consLog, proxyLog,
                   prxRcvd, attempts>>
    /\ UNCHANGED pxVars

\* The consensus receiver is dropped; buffered messages are discarded.
ConsensusClose ==
    /\ ~consClosed
    /\ consClosed' = TRUE
    /\ cons' = <<>>
    /\ UNCHANGED <<n, nextTx, ingress, ingressClosed, lbPc, i, j, cur, chan,
                   closed, recvLog, consLog, proxyLog, consRcvd, prxRcvd,
                   attempts>>
    /\ UNCHANGED pxVars

\* The receiver of proxy p takes the head of its channel.
ProxyRecv(p) ==
    /\ ~closed[p]
    /\ chan[p] # <<>>
    /\ prxRcvd' = [prxRcvd EXCEPT ![p] = Append(@, Head(chan[p]))]
    /\ chan' = [chan EXCEPT ![p] = Tail(@)]
    /\ UNCHANGED <<n, nextTx, ingress, ingressClosed, lbPc, i, j, cur, cons,
                   consClosed, closed, recvLog, consLog, proxyLog, consRcvd,
                   attempts>>
    /\ UNCHANGED pxVars

\* The receiver of proxy p is dropped (the proxy task exited).
ProxyClose(p) ==
    /\ ~closed[p]
    /\ closed' = [closed EXCEPT ![p] = TRUE]
    /\ chan' = [chan EXCEPT ![p] = <<>>]
    /\ UNCHANGED <<n, nextTx, ingress, ingressClosed, lbPc, i, j, cur, cons,
                   consClosed, recvLog, consLog, proxyLog, consRcvd, prxRcvd,
                   attempts>>
    /\ UNCHANGED pxVars

(* ---------------------- LoadBalancer::run ------------------------------- *)
\* while let Some(transaction) = self.rx_transactions.recv().await
LBRecv ==
    /\ lbPc = "recv"
    /\ ingress # <<>>
    /\ cur' = Head(ingress)
    /\ ingress' = Tail(ingress)
    /\ recvLog' = Append(recvLog, Head(ingress))
    /\ lbPc' = "consensus"
    /\ UNCHANGED <<n, nextTx, ingressClosed, i, j, cons, consClosed, chan,
                   closed, consLog, proxyLog, consRcvd, prxRcvd, attempts>>
    /\ UNCHANGED pxVars

\* recv() returns None: the loop ends, run returns and spawn drops the balancer.
LBRecvNone ==
    /\ lbPc = "recv"
    /\ ingress = <<>>
    /\ ingressClosed
    /\ lbPc' = "done"
    /\ UNCHANGED <<n, nextTx, ingress, ingressClosed, i, j, cur, cons,
                   consClosed, chan, closed, recvLog, consLog, proxyLog,
                   consRcvd, prxRcvd, attempts>>
    /\ UNCHANGED pxVars

\* mutant: the failed consensus send does not break out of the loop
LBSendConsensusNoBreak ==
    /\ lbPc = "consensus"
    /\ \/ /\ SendFails(consClosed)
          /\ lbPc' = "primary"
          /\ UNCHANGED <<cons, consLog, cur>>
       \/ /\ SendReady(cons, consClosed)
          /\ cons' = Append(cons, cur)
          /\ consLog' = Append(consLog, cur)
          /\ lbPc' = "primary"
          /\ UNCHANGED cur
    /\ UNCHANGED <<n, nextTx, ingress, ingressClosed, i, j, consClosed, chan,
                   closed, recvLog, proxyLog, consRcvd, prxRcvd, attempts>>
    /\ UNCHANGED pxVars

\* if self.tx_consensus.send(transaction.clone()).await.is_err() { break; }
LBSendConsensus ==
    /\ lbPc = "consensus"
    /\ \/ /\ SendFails(consClosed)
          /\ lbPc' = "done"
          /\ cur' = NoTx
          /\ UNCHANGED <<cons, consLog>>
       \/ /\ SendReady(cons, consClosed)
          /\ cons' = Append(cons, cur)
          /\ consLog' = Append(consLog, cur)
          /\ lbPc' = "primary"
          /\ UNCHANGED cur
    /\ UNCHANGED <<n, nextTx, ingress, ingressClosed, i, j, consClosed, chan,
                   closed, recvLog, proxyLog, consRcvd, prxRcvd, attempts>>
    /\ UNCHANGED pxVars

\* mutant: the round robin starts one proxy too far
ProxyIdOfShifted(k, len) == (k + 1) % len

\* let proxy_id = i % self.tx_proxies.len();
ProxyIdOf(k, len) == k % len

\* i += 1;
NextI(k) == k + 1

\* mutant: the failover search steps over every other proxy
NextJSkip(k, len) == (k + 2) % len

\* mutant: the failover search walks the proxies backwards
NextJBack(k, len) == (k + len - 1) % len

\* let mut j = (failed + 1) % len; ... j = (j + 1) % len;
NextJ(k, len) == (k + 1) % len

\* match proxy.send(transaction.clone()).await { Ok(()) => ..., Err(_) => try_other_proxies }
LBSendPrimary ==
    /\ lbPc = "primary"
    /\ LET proxy_id == ProxyIdOf(i, n) IN
       \/ /\ SendReady(chan[proxy_id], closed[proxy_id])
          /\ chan' = [chan EXCEPT ![proxy_id] = Append(@, cur)]
          /\ proxyLog' = [proxyLog EXCEPT ![proxy_id] = Append(@, cur)]
          /\ attempts' = Append(attempts, <<cur, proxy_id, TRUE>>)
          /\ i' = NextI(i)
          /\ lbPc' = "recv"
          /\ cur' = NoTx
          /\ UNCHANGED j
       \/ /\ SendFails(closed[proxy_id])
          /\ attempts' = Append(attempts, <<cur, proxy_id, FALSE>>)
          /\ j' = NextJ(proxy_id, n)
          /\ lbPc' = "failover"
          /\ UNCHANGED <<chan, proxyLog, i, cur>>
    /\ UNCHANGED <<n, nextTx, ingress, ingressClosed, cons, consClosed, closed,
                   recvLog, consLog, consRcvd, prxRcvd>>
    /\ UNCHANGED pxVars

\* mutant: a successful failover send does not leave the search loop
LBTryOtherNoStop ==
    /\ lbPc = "failover"
    /\ LET failed == ProxyIdOf(i, n) IN
       \/ /\ j = failed
          /\ i' = NextI(i)
          /\ lbPc' = "recv"
          /\ cur' = NoTx
          /\ UNCHANGED <<chan, proxyLog, attempts, j>>
       \/ /\ j # failed
          /\ SendReady(chan[j], closed[j])
          /\ chan' = [chan EXCEPT ![j] = Append(@, cur)]
          /\ proxyLog' = [proxyLog EXCEPT ![j] = Append(@, cur)]
          /\ attempts' = Append(attempts, <<cur, j, TRUE>>)
          /\ j' = NextJ(j, n)
          /\ UNCHANGED <<i, lbPc, cur>>
       \/ /\ j # failed
          /\ SendFails(closed[j])
          /\ attempts' = Append(attempts, <<cur, j, FALSE>>)
          /\ j' = NextJ(j, n)
          /\ UNCHANGED <<chan, proxyLog, i, lbPc, cur>>
    /\ UNCHANGED <<n, nextTx, ingress, ingressClosed, cons, consClosed, closed,
                   recvLog, consLog, consRcvd, prxRcvd>>
    /\ UNCHANGED pxVars

\* mutant: when every proxy failed the balancer stops instead of dropping
LBTryOtherFatal ==
    /\ lbPc = "failover"
    /\ LET failed == ProxyIdOf(i, n) IN
       \/ /\ j = failed
          /\ lbPc' = "done"
          /\ cur' = NoTx
          /\ UNCHANGED <<chan, proxyLog, attempts, j, i>>
       \/ /\ j # failed
          /\ SendReady(chan[j], closed[j])
          /\ chan' = [chan EXCEPT ![j] = Append(@, cur)]
          /\ proxyLog' = [proxyLog EXCEPT ![j] = Append(@, cur)]
          /\ attempts' = Append(attempts, <<cur, j, TRUE>>)
          /\ i' = NextI(i)
          /\ lbPc' = "recv"
          /\ cur' = NoTx
          /\ UNCHANGED j
       \/ /\ j # failed
          /\ SendFails(closed[j])
          /\ attempts' = Append(attempts, <<cur, j, FALSE>>)
          /\ j' = NextJ(j, n)
          /\ UNCHANGED <<chan, proxyLog, i, lbPc, cur>>
    /\ UNCHANGED <<n, nextTx, ingress, ingressClosed, cons, consClosed, closed,
                   recvLog, consLog, consRcvd, prxRcvd>>
    /\ UNCHANGED pxVars

\* mutant: when every proxy failed the transaction is put back on the
\* ingress queue to be tried again later
LBTryOtherRequeue ==
    /\ lbPc = "failover"
    /\ LET failed == ProxyIdOf(i, n) IN
       \/ /\ j = failed
          /\ i' = NextI(i)
          /\ lbPc' = "recv"
          /\ cur' = NoTx
          /\ ingress' = Append(ingress, cur)
          /\ UNCHANGED <<chan, proxyLog, attempts, j>>
       \/ /\ j # failed
          /\ SendReady(chan[j], closed[j])
          /\ chan' = [chan EXCEPT ![j] = Append(@, cur)]
          /\ proxyLog' = [proxyLog EXCEPT ![j] = Append(@, cur)]
          /\ attempts' = Append(attempts, <<cur, j, TRUE>>)
          /\ i' = NextI(i)
          /\ lbPc' = "recv"
          /\ cur' = NoTx
          /\ UNCHANGED <<j, ingress>>
       \/ /\ j # failed
          /\ SendFails(closed[j])
          /\ attempts' = Append(attempts, <<cur, j, FALSE>>)
          /\ j' = NextJ(j, n)
          /\ UNCHANGED <<chan, proxyLog, i, lbPc, cur, ingress>>
    /\ UNCHANGED <<n, nextTx, ingressClosed, cons, consClosed, closed,
                   recvLog, consLog, consRcvd, prxRcvd>>
    /\ UNCHANGED pxVars

\* One iteration of the loop of try_other_proxies(failed = i % len, transaction).
LBTryOther ==
    /\ lbPc = "failover"
    /\ LET failed == ProxyIdOf(i, n) IN
       \/ /\ j = failed                    \* "All proxies failed": break
          /\ i' = NextI(i)
          /\ lbPc' = "recv"
          /\ cur' = NoTx
          /\ UNCHANGED <<chan, proxyLog, attempts, j>>
       \/ /\ j # failed
          /\ SendReady(chan[j], closed[j])
          /\ chan' = [chan EXCEPT ![j] = Append(@, cur)]
          /\ proxyLog' = [proxyLog EXCEPT ![j] = Append(@, cur)]
          /\ attempts' = Append(attempts, <<cur, j, TRUE>>)
          /\ i' = NextI(i)
          /\ lbPc' = "recv"
          /\ cur' = NoTx
          /\ UNCHANGED j
       \/ /\ j # failed
          /\ SendFails(closed[j])
          /\ attempts' = Append(attempts, <<cur, j, FALSE>>)
          /\ j' = NextJ(j, n)
          /\ UNCHANGED <<chan, proxyLog, i, lbPc, cur>>
    /\ UNCHANGED <<n, nextTx, ingress, ingressClosed, cons, consClosed, closed,
                   recvLog, consLog, consRcvd, prxRcvd>>
    /\ UNCHANGED pxVars

(* ---------------------- transactions of the proxy ----------------------- *)
Objects == 1 .. NumObjects
Tasks == 1 .. MaxTasks

\* sui_types::transaction::InputObjectKind, reduced to its variant and object id
\* (an object is owned or shared for good: odd ids are owned, even ids shared;
\* the package id collides with object id 1 on purpose)
InputObjectKinds ==
    {[kind |-> IF o % 2 = 1 THEN "ImmOrOwnedMoveObject" ELSE "SharedMoveObject",
      id |-> o] : o \in Objects}
    \cup {[kind |-> "MovePackage", id |-> 1]}

\* the input_objects() lists a submitted transaction may carry
TxInputs == UNION {[1 .. m -> InputObjectKinds] : m \in 0 .. MaxInputs}

\* mutant: shared objects are filtered out together with the packages
ObjIdsOwnedOnly(tx) ==
    LET kept == SelectSeq(tx, LAMBDA kd : kd.kind = "ImmOrOwnedMoveObject")
    IN  [k \in 1 .. Len(kept) |-> kept[k].id]

\* mutant: only the first object of the transaction is collected
ObjIdsFirstOnly(tx) ==
    LET kept == SelectSeq(tx, LAMBDA kd : kd.kind # "MovePackage")
    IN  [k \in 1 .. (IF Len(kept) = 0 THEN 0 ELSE 1) |-> kept[k].id]

\* mutant: the packages are not filtered out
ObjIdsWithPackages(tx) == [k \in 1 .. Len(tx) |-> tx[k].id]

\* transaction.input_objects().into_iter().filter_map(...).collect::<Vec<_>>()
ObjIds(tx) ==
    LET kept == SelectSeq(tx, LAMBDA kd : kd.kind # "MovePackage")
    IN  [k \in 1 .. Len(kept) |-> kept[k].id]

\* the footprint of a transaction: the ids of its ImmOrOwned and Shared inputs
FootprintOf(tx) ==
    {tx[k].id : k \in {m \in 1 .. Len(tx) :
                          tx[m].kind \in {"ImmOrOwnedMoveObject", "SharedMoveObject"}}}

(* ---------------------- dependency controller --------------------------- *)
\* The signal created for an admission is named by its task id.
\* map entry after get_dependencies(task_id, obj_ids): every id of the footprint
\* points at the fresh signal, the other entries are kept.
DepMapAfter(map, task, ids) ==
    [o \in Objects |-> IF o \in Range(ids) THEN task ELSE map[o]]

\* prior_handles: the signals replaced under the ids of the footprint
DepPriors(map, ids) == {map[o] : o \in Range(ids)} \ {0}

\* current_handles: the fresh signal, once
DepCurrent(task) == <<task>>

\* the orders in which a set of handles can be laid out in the returned Vec
Orderings(S) ==
    {q \in [1 .. Cardinality(S) -> S] : \A a, b \in 1 .. Cardinality(S) : q[a] = q[b] => a = b}

(* ---------------------- environment of the proxy ------------------------ *)
\* A sender (the load balancer) puts a transaction on the proxy channel.
\* The channel carries the transaction as an opaque item: its input objects
\* are read by nobody before the proxy takes it, so they are drawn in PxAdmit.
PxSubmit ==
    /\ submitted < MaxTasks
    /\ ~pxInClosed
    /\ pxPc = "running"
    /\ Len(pxIn) < ChanCap
    /\ pxIn' = Append(pxIn, submitted + 1)
    /\ submitted' = submitted + 1
    /\ UNCHANGED <<pxInClosed, pxPc, task_id, obj_map, tPc, prior, pIdx,
                   current, cIdx, permit, waiters, results, resClosed,
                   footprint, execution_result, fired>>
    /\ UNCHANGED <<obj_ids, waitsOn, sendFailed>>
    /\ UNCHANGED lbVars

\* The last sender of the proxy channel is dropped.
PxCloseIn ==
    /\ ~pxInClosed
    /\ pxInClosed' = TRUE
    /\ UNCHANGED <<pxIn, pxPc, submitted, task_id, obj_map, tPc, prior, pIdx,
                   current, cIdx, permit, waiters, results, resClosed,
                   footprint, execution_result, fired>>
    /\ UNCHANGED <<obj_ids, waitsOn, sendFailed>>
    /\ UNCHANGED lbVars

\* The collector takes the head of the effects channel.
EffectsRecv ==
    /\ ~resClosed
    /\ results # <<>>
    /\ results' = Tail(results)
    /\ UNCHANGED <<pxIn, pxInClosed, pxPc, submitted, task_id, obj_map, tPc,
                   prior, pIdx, current, cIdx, permit, waiters, resClosed,
                   footprint, execution_result, fired>>
    /\ UNCHANGED <<obj_ids, waitsOn, sendFailed>>
    /\ UNCHANGED lbVars

\* The effects receiver is dropped.
EffectsClose ==
    /\ ~resClosed
    /\ resClosed' = TRUE
    /\ results' = <<>>
    /\ UNCHANGED <<pxIn, pxInClosed, pxPc, submitted, task_id, obj_map, tPc,
                   prior, pIdx, current, cIdx, permit, waiters,
                   footprint, execution_result, fired>>
    /\ UNCHANGED <<obj_ids, waitsOn, sendFailed>>
    /\ UNCHANGED lbVars

(* ---------------------- Proxy::run -------------------------------------- *)
\* mutant: the loop admits the next transaction only when the tasks spawned
\* before have finished (the sequential proxy)
PxAdmitSerial ==
    /\ pxPc = "running"
    /\ pxIn # <<>>
    /\ \A u \in Tasks : tPc[u] \in {"none", "done"}
    /\ \E transaction \in TxInputs :
       LET t == task_id + 1
           ids == ObjIds(transaction)
       IN  /\ task_id' = t
           /\ pxIn' = Tail(pxIn)
           /\ obj_ids' = ids
           /\ \E prior_handles \in Orderings(DepPriors(obj_map, ids)) :
                  prior' = [prior EXCEPT ![t] = prior_handles]
           /\ waitsOn' = [waitsOn EXCEPT ![t] = DepPriors(obj_map, ids)]
           /\ current' = [current EXCEPT ![t] = DepCurrent(t)]
           /\ obj_map' = DepMapAfter(obj_map, t, ids)
           /\ footprint' = [footprint EXCEPT ![t] = FootprintOf(transaction)]
           /\ tPc' = [tPc EXCEPT ![t] = "await"]
    /\ UNCHANGED <<pxInClosed, pxPc, submitted, pIdx, cIdx, permit, waiters,
                   results, resClosed, execution_result, fired, sendFailed>>
    /\ UNCHANGED lbVars

\* mutant: the ids are registered one by one, so that the later ids find the
\* entry the first one just wrote
PxAdmitPerId ==
    /\ pxPc = "running"
    /\ pxIn # <<>>
    /\ \E transaction \in TxInputs :
       LET t == task_id + 1
           ids == ObjIds(transaction)
       IN  /\ task_id' = t
           /\ pxIn' = Tail(pxIn)
           /\ obj_ids' = ids
           /\ \E prior_handles \in Orderings(DepPriors(obj_map, ids) \cup DepPriors(DepMapAfter(obj_map, t, SubSeq(ids, 1, 1)), SubSeq(ids, 2, Len(ids)))) :
                  prior' = [prior EXCEPT ![t] = prior_handles]
           /\ waitsOn' = [waitsOn EXCEPT ![t] = DepPriors(obj_map, ids) \cup DepPriors(DepMapAfter(obj_map, t, SubSeq(ids, 1, 1)), SubSeq(ids, 2, Len(ids)))]
           /\ current' = [current EXCEPT ![t] = DepCurrent(t)]
           /\ obj_map' = DepMapAfter(obj_map, t, ids)
           /\ footprint' = [footprint EXCEPT ![t] = FootprintOf(transaction)]
           /\ tPc' = [tPc EXCEPT ![t] = "await"]
    /\ UNCHANGED <<pxInClosed, pxPc, submitted, pIdx, cIdx, permit, waiters,
                   results, resClosed, execution_result, fired, sendFailed>>
    /\ UNCHANGED lbVars

\* One iteration of the admission loop: recv, task_id += 1, footprint,
\* get_dependencies, tokio::spawn.  Nothing in it awaits after recv.
PxAdmit ==
    /\ pxPc = "running"
    /\ pxIn # <<>>
    /\ \E transaction \in TxInputs :
       LET t == task_id + 1
           ids == ObjIds(transaction)
       IN  /\ task_id' = t
           /\ pxIn' = Tail(pxIn)
           /\ obj_ids' = ids
           /\ \E prior_handles \in Orderings(DepPriors(obj_map, ids)) :
                  prior' = [prior EXCEPT ![t] = prior_handles]
           /\ waitsOn' = [waitsOn EXCEPT ![t] = DepPriors(obj_map, ids)]
           /\ current' = [current EXCEPT ![t] = DepCurrent(t)]
           /\ obj_map' = DepMapAfter(obj_map, t, ids)
           /\ footprint' = [footprint EXCEPT ![t] = FootprintOf(transaction)]
           /\ tPc' = [tPc EXCEPT ![t] = "await"]
    /\ UNCHANGED <<pxInClosed, pxPc, submitted, pIdx, cIdx, permit, waiters,
                   results, resClosed, execution_result, fired, sendFailed>>
    /\ UNCHANGED lbVars

\* recv() returns None: Proxy::run returns.
PxRecvNone ==
    /\ pxPc = "running"
    /\ pxIn = <<>>
    /\ pxInClosed
    /\ pxPc' = "returned"
    /\ UNCHANGED <<pxIn, pxInClosed, submitted, task_id, obj_map, tPc, prior,
                   pIdx, current, cIdx, permit, waiters, results, resClosed,
                   execution_result, footprint, fired>>
    /\ UNCHANGED <<obj_ids, waitsOn, sendFailed>>
    /\ UNCHANGED lbVars

(* ---------------------- the spawned task -------------------------------- *)
\* prior_notify.notified().await, first poll: a stored permit is consumed,
\* otherwise the task is queued on the Notify.
TaskAwait(t) ==
    /\ tPc[t] = "await"
    /\ pIdx[t] <= Len(prior[t])
    /\ LET s == prior[t][pIdx[t]] IN
       IF permit[s]
       THEN /\ permit' = [permit EXCEPT ![s] = FALSE]
            /\ pIdx' = [pIdx EXCEPT ![t] = @ + 1]
            /\ UNCHANGED <<waiters, tPc>>
       ELSE /\ waiters' = [waiters EXCEPT ![s] = Append(@, t)]
            /\ tPc' = [tPc EXCEPT ![t] = "parked"]
            /\ UNCHANGED <<permit, pIdx>>
    /\ UNCHANGED <<pxIn, pxInClosed, pxPc, submitted, task_id, obj_map, prior,
                   current, cIdx, results, resClosed, execution_result,
                   footprint, fired>>
    /\ UNCHANGED <<obj_ids, waitsOn, sendFailed>>
    /\ UNCHANGED lbVars

\* every prior handle was notified: E::exec_on_ctx(ctx, store, transaction) starts
TaskExecStart(t) ==
    /\ tPc[t] = "await"
    /\ pIdx[t] > Len(prior[t])
    /\ tPc' = [tPc EXCEPT ![t] = "exec"]
    /\ prior' = [prior EXCEPT ![t] = <<>>]      \* the loop consumed the Vec
    /\ pIdx' = [pIdx EXCEPT ![t] = 1]
    /\ UNCHANGED <<pxIn, pxInClosed, pxPc, submitted, task_id, obj_map,
                   current, cIdx, permit, waiters, results, resClosed,
                   execution_result, footprint, fired>>
    /\ UNCHANGED <<obj_ids, waitsOn, sendFailed>>
    /\ UNCHANGED lbVars

\* mutant: a failed execution skips the firing of the current handles
TaskExecReturnSkipsFire(t) ==
    /\ tPc[t] = "exec"
    /\ \E ok \in BOOLEAN :
           /\ execution_result' =
                  [execution_result EXCEPT ![t] = IF ok THEN "success" ELSE "failure"]
           /\ tPc' = [tPc EXCEPT ![t] = IF current[t] = <<>> \/ ~ok THEN "send" ELSE "fire"]
    /\ UNCHANGED <<pxIn, pxInClosed, pxPc, submitted, task_id, obj_map, prior,
                   pIdx, current, cIdx, permit, waiters, results, resClosed,
                   footprint, fired>>
    /\ UNCHANGED <<obj_ids, waitsOn, sendFailed>>
    /\ UNCHANGED lbVars

\* exec_on_ctx returns its effects; success() is the executor's choice
TaskExecReturn(t) ==
    /\ tPc[t] = "exec"
    /\ \E ok \in BOOLEAN :
           execution_result' =
               [execution_result EXCEPT ![t] = IF ok THEN "success" ELSE "failure"]
    /\ tPc' = [tPc EXCEPT ![t] = IF current[t] = <<>> THEN "send" ELSE "fire"]
    /\ UNCHANGED <<pxIn, pxInClosed, pxPc, submitted, task_id, obj_map, prior,
                   pIdx, current, cIdx, permit, waiters, results, resClosed,
                   footprint, fired>>
    /\ UNCHANGED <<obj_ids, waitsOn, sendFailed>>
    /\ UNCHANGED lbVars

\* for notify in current_handles { notify.notify_one(); }, one handle:
\* Notify::notify_one wakes the longest queued waiter, or stores one permit.
TaskFire(t) ==
    /\ tPc[t] = "fire"
    /\ LET s == current[t][cIdx[t]]
           last == cIdx[t] = Len(current[t])
           next == IF last THEN "send" ELSE "fire"
       IN  /\ fired' = [fired EXCEPT ![s] = @ + 1]
           /\ cIdx' = [cIdx EXCEPT ![t] = IF last THEN 1 ELSE @ + 1]
           /\ current' = [current EXCEPT ![t] = IF last THEN <<>> ELSE @]
           /\ IF waiters[s] # <<>>
              THEN LET w == Head(waiters[s]) IN
                   /\ waiters' = [waiters EXCEPT ![s] = Tail(@)]
                   /\ tPc' = [tPc EXCEPT ![t] = next, ![w] = "await"]
                   /\ pIdx' = [pIdx EXCEPT ![w] = @ + 1]
                   /\ UNCHANGED permit
              ELSE /\ permit' = [permit EXCEPT ![s] = TRUE]
                   /\ tPc' = [tPc EXCEPT ![t] = next]
                   /\ UNCHANGED <<waiters, pIdx>>
    /\ UNCHANGED <<pxIn, pxInClosed, pxPc, submitted, task_id, obj_map, prior,
                   results, resClosed, execution_result, footprint>>
    /\ UNCHANGED <<obj_ids, waitsOn, sendFailed>>
    /\ UNCHANGED lbVars

\* if tx_results.send(execution_result).await.is_err() { warn }: the result is
\* moved into the channel (or dropped with the error) and the task ends
TaskSend(t) ==
    /\ tPc[t] = "send"
    /\ \/ /\ SendReady(results, resClosed)
          /\ results' = Append(results, <<t, execution_result[t]>>)
          /\ UNCHANGED sendFailed
       \/ /\ SendFails(resClosed)
          /\ sendFailed' = TRUE
          /\ UNCHANGED results
    /\ execution_result' = [execution_result EXCEPT ![t] = "moved"]
    /\ tPc' = [tPc EXCEPT ![t] = "done"]
    /\ UNCHANGED <<obj_ids, waitsOn>>
    /\ UNCHANGED <<pxIn, pxInClosed, pxPc, submitted, task_id, obj_map, prior,
                   pIdx, current, cIdx, permit, waiters, resClosed, footprint,
                   fired>>
    /\ UNCHANGED lbVars

\* exec_on_ctx panics: the task unwinds out of the async block, which drops
\* current_handles and tx_results without using them;
\* dropping an Arc<Notify> notifies nobody, and tokio keeps the panic inside
\* the task (its JoinHandle was dropped at spawn).
TaskExecPanic(t) ==
    /\ tPc[t] = "exec"
    /\ tPc' = [tPc EXCEPT ![t] = "panicked"]
    /\ current' = [current EXCEPT ![t] = <<>>]
    /\ UNCHANGED <<pxIn, pxInClosed, pxPc, submitted, task_id, obj_map, prior,
                   pIdx, cIdx, permit, waiters, results, resClosed,
                   execution_result, obj_ids, footprint, fired, waitsOn,
                   sendFailed>>
    /\ UNCHANGED lbVars

(* ---------------------- specification ----------------------------------- *)
LBInit ==
    /\ n \in 1 .. MaxN
    /\ nextTx = 0
    /\ ingress = <<>>
    /\ ingressClosed = FALSE
    /\ lbPc = "recv"
    /\ i = 0
    /\ j = 0
    /\ cur = NoTx
    /\ cons = <<>>
    /\ consClosed = FALSE
    /\ chan = [p \in 0 .. (n - 1) |-> <<>>]
    /\ closed = [p \in 0 .. (n - 1) |-> FALSE]
    /\ recvLog = <<>>
    /\ consLog = <<>>
    /\ proxyLog = [p \in 0 .. (n - 1) |-> <<>>]
    /\ consRcvd = <<>>
    /\ prxRcvd = [p \in 0 .. (n - 1) |-> <<>>]
    /\ attempts = <<>>

PxIdle ==
    /\ pxIn = <<>>
    /\ pxInClosed = FALSE
    /\ pxPc = "running"
    /\ submitted = 0
    /\ task_id = 0
    /\ obj_map = [o \in Objects |-> 0]
    /\ tPc = [t \in Tasks |-> "none"]
    /\ prior = [t \in Tasks |-> <<>>]
    /\ pIdx = [t \in Tasks |-> 1]
    /\ current = [t \in Tasks |-> <<>>]
    /\ cIdx = [t \in Tasks |-> 1]
    /\ permit = [t \in Tasks |-> FALSE]
    /\ waiters = [t \in Tasks |-> <<>>]
    /\ results = <<>>
    /\ resClosed = FALSE
    /\ footprint = [t \in Tasks |-> {}]
    /\ execution_result = [t \in Tasks |-> "none"]
    /\ fired = [t \in Tasks |-> 0]
    /\ obj_ids = <<>>
    /\ waitsOn = [t \in Tasks |-> {}]
    /\ sendFailed = FALSE

Init == LBInit /\ PxIdle

\* one proxy on its own: the balancer side stays as constructed
ProxyInit == LBInit /\ n = 1 /\ PxIdle

Next ==
    \/ Feed
    \/ CloseIngress
    \/ ConsensusRecv
    \/ ConsensusClose
    \/ \E p \in Proxies : ProxyRecv(p)
    \/ \E p \in Proxies : ProxyClose(p)
    \/ LBRecv
    \/ LBRecvNone
    \/ LBSendConsensus
    \/ LBSendPrimary
    \/ LBTryOther

Spec == Init /\ [][Next]_vars

ProxyNext ==
    \/ PxSubmit
    \/ PxCloseIn
    \/ EffectsRecv
    \/ EffectsClose
    \/ PxAdmit
    \/ PxRecvNone
    \/ \E t \in Tasks : TaskAwait(t)
    \/ \E t \in Tasks : TaskExecStart(t)
    \/ \E t \in Tasks : TaskExecReturn(t)
    \/ \E t \in Tasks : TaskFire(t)
    \/ \E t \in Tasks : TaskSend(t)

ProxySpec == ProxyInit /\ [][ProxyNext]_vars

\* the proxy with an executor that may panic
ProxyPanicNext ==
    \/ ProxyNext
    \/ \E t \in Tasks : TaskExecPanic(t)

ProxyPanicSpec == ProxyInit /\ [][ProxyPanicNext]_vars

\* What the tokio runtime and the hypotheses of a clean shutdown give: the
\* admission loop and every spawned task that can take a step is scheduled,
\* every exec_on_ctx returns, the collector keeps draining the effects
\* channel, and the balancer ends and drops the senders of the proxy channel.
ProxyFairness ==
    /\ WF_vars(PxCloseIn)
    /\ WF_vars(EffectsRecv)
    /\ WF_vars(PxAdmit)
    /\ WF_vars(PxRecvNone)
    /\ \A t \in Tasks :
          /\ WF_vars(TaskAwait(t))
          /\ WF_vars(TaskExecStart(t))
          /\ WF_vars(TaskExecReturn(t))
          /\ WF_vars(TaskFire(t))
          /\ WF_vars(TaskSend(t))

ProxyFairSpec == ProxyInit /\ [][ProxyNext]_vars /\ ProxyFairness

(* ---------------------- observations ------------------------------------ *)
Count(s, x) == Cardinality({k \in 1 .. Len(s) : s[k] = x})

IsPrefix(s, t) == Len(s) <= Len(t) /\ \A k \in 1 .. Len(s) : s[k] = t[k]

\* s is obtained from t by deleting elements (order kept)
RECURSIVE IsSubseq(_, _)
IsSubseq(s, t) ==
    IF s = <<>> THEN TRUE
    ELSE IF t = <<>> THEN FALSE
    ELSE IF Head(s) = Head(t) THEN IsSubseq(Tail(s), Tail(t))
    ELSE IsSubseq(s, Tail(t))

\* the transactions the upstream put on the ingress channel, in order
IngressSeq == [k \in 1 .. nextTx |-> k - 1]

\* position (from 0) of a received transaction in the order of reception
RecvIndex(tx) == (CHOOSE k \in 1 .. Len(recvLog) : recvLog[k] = tx) - 1

\* the proxy sends made for one transaction, in order
AttemptsOf(tx) == SelectSeq(attempts, LAMBDA a : a[1] = tx)

\* transactions whose loop iteration has finished its proxy step
Routed == {recvLog[k] : k \in 1 .. i}

\* the proxies whose send of tx returned Ok
DestOf(tx) == {p \in Proxies : tx \in Range(proxyLog[p])}

AllOpen == \A p \in Proxies : ~closed[p]
AllClosed == \A p \in Proxies : closed[p]

TypeOK ==
    /\ n \in 1 .. MaxN
    /\ lbPc \in {"recv", "consensus", "primary", "failover", "done"}
    /\ i \in Nat
    /\ i <= Len(recvLog)
    /\ Len(cons) <= ChanCap
    /\ task_id \in 0 .. MaxTasks
    /\ Len(results) <= ChanCap

(* ======================= claims: load balancer =========================== *)

\* C2: with no proxy channel closed, the i-th received transaction (from 0)
\* is sent to tx_proxies[i mod N] and to no other proxy, and the counter i
\* has advanced once per received transaction whose consensus send succeeded
\* and whose proxy step is over.
C2_RoundRobinResidue ==
    AllOpen =>
        /\ \A tx \in Routed : DestOf(tx) = {RecvIndex(tx) % n}
        /\ \A p \in Proxies : \A tx \in Range(proxyLog[p]) :
               /\ RecvIndex(tx) % n = p
               /\ Count(proxyLog[p], tx) = 1
        /\ i = Len(consLog) - (IF lbPc \in {"primary", "failover"} THEN 1 ELSE 0)

C2_Witness ==
    /\ AllOpen
    /\ n = 2
    /\ proxyLog[0] = <<0, 2>>
    /\ proxyLog[1] = <<1, 3>>
    /\ i = 4

\* C3: a transaction routed while the consensus sink and at least one proxy
\* channel are open is delivered once to the consensus sink and to exactly
\* one proxy channel.
C3_FanOutComplete ==
    (~consClosed /\ ~AllClosed) =>
        \A tx \in Routed :
            /\ Count(consLog, tx) = 1
            /\ Cardinality(DestOf(tx)) = 1
            /\ \A p \in DestOf(tx) : Count(proxyLog[p], tx) = 1

C3_Witness ==
    /\ ~consClosed
    /\ n = 3
    /\ closed[0] /\ closed[1] /\ ~closed[2]
    /\ AttemptsOf(0) = << <<0, 0, FALSE>>, <<0, 1, FALSE>>, <<0, 2, TRUE>> >>
    /\ 0 \in Routed

\* C4: a failed send to the consensus sink ends the balancer: the transaction
\* is sent to no proxy, nothing more is received, and no proxy holds a
\* transaction that was not delivered to the consensus sink first.
C4_ConsensusClosedFatal ==
    /\ LET delivered == Range(consLog)
       IN  /\ \A k \in 1 .. Len(attempts) : attempts[k][1] \in delivered
           /\ \A p \in Proxies : \A k \in 1 .. Len(proxyLog[p]) : proxyLog[p][k] \in delivered
    /\ Len(recvLog) <= Len(consLog) + 1
    /\ Len(recvLog) = Len(consLog) + 1 =>
          /\ lbPc \in {"consensus", "done"}
          /\ lbPc = "done" => consClosed
    /\ lbPc = "done" => ~ ENABLED (LBRecv \/ LBSendConsensus \/ LBSendPrimary \/ LBTryOther)

C4_Witness ==
    /\ lbPc = "done"
    /\ consClosed
    /\ Len(recvLog) = Len(consLog) + 1
    /\ Len(consLog) >= 1
    /\ ingress # <<>>

\* C5 (one send): what holds of every proxy send the balancer completes.
FailoverStep ==
    attempts' # attempts =>
        LET k == Len(attempts')
            tx == attempts'[k][1]
            q == attempts'[k][2]
            ok == attempts'[k][3]
            p == RecvIndex(tx) % n
        IN  /\ attempts' = Append(attempts, <<tx, q, ok>>)
            /\ ~ok => (closed[q] /\ proxyLog' = proxyLog)
            /\ ok => (~closed[q] /\ proxyLog' = [proxyLog EXCEPT ![q] = Append(@, tx)])
            /\ IF k > 1 /\ attempts[k - 1][1] = tx
               THEN /\ ~attempts[k - 1][3]
                    /\ q = (attempts[k - 1][2] + 1) % n
                    /\ q # p
               ELSE /\ q = p
                    /\ \A m \in 1 .. (k - 1) : attempts[m][1] # tx

\* C5: a failed primary send is followed by sends to (p+1) mod N, (p+2) mod N,
\* ... in that order, each made only after the previous one failed on a closed
\* channel; the primary is not retried, at most N-1 other proxies are tried,
\* the first open one receives the transaction, and every transaction tries
\* its own primary first whatever failed before.
C5_Failover == [][FailoverStep]_vars

C5_Witness ==
    /\ n = 3
    /\ AttemptsOf(0) = << <<0, 0, FALSE>>, <<0, 1, FALSE>>, <<0, 2, TRUE>> >>
    /\ AttemptsOf(3) = << <<3, 0, FALSE>>, <<3, 1, FALSE>>, <<3, 2, TRUE>> >>

TxSeq(a, b) == [k \in 1 .. (b - a + 1) |-> a + k - 1]

S4Setting ==
    /\ n = 3
    /\ ~closed[0] /\ closed[1] /\ ~closed[2]
    /\ proxyLog[1] = <<>>
    /\ ~consClosed
    /\ i = 6

\* C6 as stated: in scenario S4 the destinations are T0 to 0, T1 to 2, T2 to 2,
\* T3 to 0, T4 to 0, T5 to 2 and the consensus sink gets all six in order.
C6_S4AsStated ==
    S4Setting =>
        /\ proxyLog[0] = <<0, 3, 4>>
        /\ proxyLog[2] = <<1, 2, 5>>
        /\ IsPrefix(TxSeq(0, 5), consLog)

\* C6 amended: in scenario S4 the destinations are T0 to 0, T1 to 2, T2 to 2,
\* T3 to 0, T4 to 2 (primary 4 mod 3 = 1 is closed, next is 2), T5 to 2, and
\* the consensus sink gets all six in order.
C6_S4Amended ==
    S4Setting =>
        /\ proxyLog[0] = <<0, 3>>
        /\ proxyLog[2] = <<1, 2, 4, 5>>
        /\ IsPrefix(TxSeq(0, 5), consLog)

C6_Witness ==
    /\ S4Setting
    /\ AttemptsOf(4) = << <<4, 1, FALSE>>, <<4, 2, TRUE>> >>
    /\ Len(consRcvd) = 6

\* C7: with every proxy channel closed and the consensus sink open the
\* balancer does not stop (it ends only when the ingress is closed and
\* drained) and is never blocked on a proxy; every received transaction is
\* delivered to the consensus sink in ingress order; a transaction that
\* reached no proxy was tried once on each of the N proxies and then dropped.
C7_AllProxiesClosed ==
    (AllClosed /\ ~consClosed) =>
        /\ lbPc = "done" => (ingressClosed /\ ingress = <<>> /\ consLog = recvLog)
        /\ lbPc = "primary" => ENABLED LBSendPrimary
        /\ lbPc = "failover" => ENABLED LBTryOther
        /\ (lbPc = "recv" /\ ingress # <<>>) => ENABLED LBRecv
        /\ IsPrefix(consLog, IngressSeq)
        /\ Len(consLog) >= Len(recvLog) - 1
        /\ \A tx \in Routed :
              DestOf(tx) = {} =>
                 /\ Len(AttemptsOf(tx)) = n
                 /\ {AttemptsOf(tx)[m][2] : m \in 1 .. n} = Proxies
                 /\ \A m \in 1 .. n : ~AttemptsOf(tx)[m][3]

C7_Witness ==
    /\ AllClosed /\ ~consClosed
    /\ n = 1
    /\ proxyLog[0] = <<>>
    /\ i = 3
    /\ consLog = <<0, 1, 2>>
    /\ lbPc = "consensus"

Admitted == 1 .. task_id

Started(t) == tPc[t] \in {"exec", "fire", "send", "done"}
Returned(t) == tPc[t] \in {"fire", "send", "done"}
Overlap(a, b) == footprint[a] \cap footprint[b] # {}

\* the signal task t is waiting for, 0 when it waits for none
WaitsFor(t) ==
    IF tPc[t] \in {"await", "parked"} /\ pIdx[t] <= Len(prior[t])
    THEN prior[t][pIdx[t]] ELSE 0

PxTypeOK ==
    /\ task_id \in 0 .. MaxTasks
    /\ submitted = task_id + Len(pxIn)
    /\ Len(results) <= ChanCap
    /\ \A t \in Tasks : t > task_id => tPc[t] = "none"
    /\ \A t \in Tasks : tPc[t] = "parked" <=> \E s \in Tasks : t \in Range(waiters[s])

\* C1: for transactions a received before b on the proxy whose footprints
\* share an object id, exec_on_ctx of a has returned before exec_on_ctx of b
\* starts; transactions that all share one object start in receive order.
C1_DependencySafety ==
    \A a, b \in Admitted :
        (a < b /\ Overlap(a, b) /\ Started(b)) => Returned(a)

C1_Witness ==
    /\ task_id = 3
    /\ \A t \in 1 .. 3 : 1 \in footprint[t]
    /\ footprint[2] = {1, 2}
    /\ tPc[1] = "done" /\ tPc[2] = "done" /\ tPc[3] = "exec"

\* C9 (state part): a signal is fired at most once, never before exec_on_ctx of
\* its task has returned, and exactly once when the task goes on to send.
SignalFiredOnce ==
    \A t \in Tasks :
        /\ fired[t] <= 1
        /\ fired[t] = 1 => (Returned(t) /\ tPc[t] # "fire")
        /\ tPc[t] \in {"send", "done"} => fired[t] = 1
        /\ (t \in Admitted /\ ~Returned(t)) => current[t] = <<t>>
        /\ (t \in Admitted /\ tPc[t] = "fire") => current[t] = <<t>>

\* C9 (step part): the signal of t is fired by task t only, and the task that
\* has fired sends the effects it got, success or failure, unless the effects
\* receiver is gone.
FiredByOwnerThenSent ==
    \A t \in Tasks :
        /\ fired'[t] # fired[t] => (tPc[t] = "fire" /\ tPc'[t] = "send")
        /\ (tPc[t] = "send" /\ tPc'[t] = "done") =>
               \/ results' = Append(results, <<t, execution_result[t]>>)
               \/ resClosed

\* C9: every completion signal created for an admitted task is fired exactly
\* once by that task, after its executor invocation returned and not before,
\* whether the executor reports success or failure, and the effects are
\* still sent.
C9_SignalFiring == []SignalFiredOnce /\ [][FiredByOwnerThenSent]_vars

C9_Witness ==
    /\ task_id >= 2
    /\ tPc[1] = "done" /\ fired[1] = 1
    /\ tPc[2] = "send" /\ fired[2] = 1 /\ execution_result[2] = "failure"
    /\ results = << <<1, "failure">> >>

\* C10: once the producing task has fired its signal, no task that holds the
\* signal in its prior_handles is left unable to proceed: a task still
\* awaiting a fired signal finds a permit to take.
C10_SingleFiringReleasesAll ==
    \A t \in Admitted :
        (WaitsFor(t) # 0 /\ fired[WaitsFor(t)] >= 1) =>
            (tPc[t] = "await" /\ permit[WaitsFor(t)])

\* C11 (one step): once a send of effects has failed, run admits nothing more.
NoAdmissionAfterSendFailure ==
    sendFailed => (task_id' = task_id /\ obj_map' = obj_map)

\* C11: when a send of execution effects fails because the effects receiver
\* is closed, the admission loop of the proxy terminates: it receives and
\* admits no further transaction (tasks already spawned run on and their sends
\* put nothing on the channel).
C11_EffectsClosedStopsAdmission ==
    [][NoAdmissionAfterSendFailure /\ (resClosed => results' = <<>>)]_vars

\* C12: for transactions of one proxy with footprints {o1}, {o1,o2}, {o2}
\* admitted in that order, and for any two transactions whose footprints
\* overlap, the effects reach the effects channel in admission order: the
\* effects of the later one are never on the channel while the task of the
\* earlier one has still to send its own.
C12_EffectsInAdmissionOrder ==
    \A a, b \in Admitted :
        (a < b /\ Overlap(a, b) /\ ~resClosed /\ tPc[b] = "done") => tPc[a] = "done"

\* C13: a task whose executor invocation panicked instead of returning has
\* still fired its current handle, so that no later task overlapping its
\* footprint is left waiting for it.
C13_SignalsReleasedOnPanic ==
    \A t \in Admitted : tPc[t] = "panicked" => fired[t] = 1

\* C14: Proxy::run returns only when every task it spawned has finished: in
\* no state has run returned while a spawned task is still waiting, executing,
\* firing or sending.
C14_DrainBeforeExit ==
    pxPc = "returned" => \A t \in Admitted : tPc[t] = "done"

\* C15: the admission loop never waits for a spawned task (with a transaction
\* on the proxy channel the next admission is enabled whatever the tasks are
\* doing), and a task whose footprint is disjoint from the footprint of every
\* transaction admitted before it waits for nothing: its executor invocation
\* can start while earlier ones have not returned.
C15_ParallelProgress ==
    /\ (pxPc = "running" /\ pxIn # <<>>) => ENABLED PxAdmit
    /\ \A b \in Admitted :
          (tPc[b] \in {"await", "parked"} /\ \A a \in 1 .. (b - 1) : ~Overlap(a, b)) =>
              ENABLED TaskExecStart(b)

\* two transactions with disjoint, non-empty footprints admitted back to
\* back, both inside exec_on_ctx
C15_Witness ==
    /\ task_id = 2
    /\ footprint[1] = {1} /\ footprint[2] = {2}
    /\ tPc[1] = "exec" /\ tPc[2] = "exec"

\* C16: under fair scheduling, with every executor invocation returning, the
\* proxy channel closed behind the balancer and the effects receiver draining
\* and never dropped, the proxy shuts down: Proxy::run returns and every
\* transaction delivered to the proxy has its effects sent (no spawned task
\* waits forever on a prior signal).
C16_ShutdownLiveness ==
    ([] ~resClosed) => <>(pxPc = "returned" /\ \A t \in Admitted : tPc[t] = "done")

(* ======================= claims: dependency table ======================== *)

\* C17 (one step): what an admission does to the dependency table, and that
\* nothing else touches the table.
TableUpdateStep ==
    IF task_id' # task_id
    THEN LET t == task_id'
             F == footprint'[t]
         IN  /\ t = task_id + 1
             /\ Range(obj_ids') = F
             /\ \A o \in Objects : obj_map'[o] = (IF o \in F THEN t ELSE obj_map[o])
             /\ \A o \in Objects : obj_map[o] # 0 => obj_map'[o] # 0
             /\ Range(prior'[t]) = {obj_map[o] : o \in F} \ {0}
             /\ waitsOn'[t] = Range(prior'[t])
             /\ tPc'[t] = "await"
    ELSE obj_map' = obj_map

RECURSIVE OverlapReach(_, _)
OverlapReach(S, k) ==
    IF k = 0 THEN S
    ELSE OverlapReach(S \cup {b \in Admitted : \E a \in S : Overlap(a, b)}, k - 1)

\* a and b are linked by a chain of tasks with pairwise overlapping footprints
Linked(a, b) == b \in OverlapReach({a}, MaxTasks)

\* signals reached from S along prior_handles, in at most k links
RECURSIVE WaitReach(_, _)
WaitReach(S, k) ==
    IF k = 0 THEN S
    ELSE WaitReach(S \cup UNION {waitsOn[a] : a \in S}, k - 1)

\* the prior_handles of b contain the signal of a, directly or transitively
DependsOn(b, a) == a \in WaitReach(waitsOn[b], MaxTasks)

\* C18: two tasks of one proxy whose footprints are disjoint and that no
\* chain of pairwise overlapping footprints links do not wait on each other:
\* neither holds the other's signal in its prior_handles, directly or through
\* other tasks, and neither is queued on the other's signal.
C18_DisjointIndependent ==
    /\ \A a, b \in Admitted :
          (a # b /\ ~Linked(a, b)) =>
              /\ ~DependsOn(a, b) /\ ~DependsOn(b, a)
              /\ a \notin Range(waiters[b]) /\ b \notin Range(waiters[a])
    /\ \A t \in Admitted :
          tPc[t] \in {"await", "parked"} => Range(prior[t]) = waitsOn[t]

\* o1 is used by tasks 1 and 3, o2 by task 2 alone: task 2 executes while
\* task 1 has not started and task 3 is queued on the signal of task 1
C18_Witness ==
    /\ task_id = 3
    /\ footprint[1] = {1} /\ footprint[2] = {2} /\ footprint[3] = {1}
    /\ tPc[1] = "await" /\ tPc[2] = "exec" /\ tPc[3] = "parked"
    /\ waitsOn[3] = {1} /\ waitsOn[2] = {}

SuspendedOnPrimary ==
    /\ lbPc = "primary"
    /\ ~closed[ProxyIdOf(i, n)]
    /\ Len(chan[ProxyIdOf(i, n)]) = ChanCap

\* C20 (state part): suspended on a full primary the balancer can take no step
\* at all, and no channel holds more than its capacity.
BackPressureHolds ==
    /\ SuspendedOnPrimary =>
          ~ ENABLED (LBRecv \/ LBRecvNone \/ LBSendConsensus \/ LBSendPrimary \/ LBTryOther)
    /\ Len(ingress) <= ChanCap
    /\ Len(cons) <= ChanCap
    /\ \A p \in Proxies : Len(chan[p]) <= ChanCap

\* C20 (step part): while the balancer is at the send to an open primary,
\* nothing is received from the ingress, nothing goes to the consensus sink,
\* and the only proxy send that completes is the delivery to the primary.
BackPressureStep ==
    (lbPc = "primary" /\ ~closed[ProxyIdOf(i, n)]) =>
        LET p == ProxyIdOf(i, n) IN
        /\ recvLog' = recvLog
        /\ consLog' = consLog
        /\ \/ /\ attempts' = attempts
              /\ proxyLog' = proxyLog
              /\ lbPc' = "primary"
           \/ /\ Len(chan[p]) < ChanCap
              /\ attempts' = Append(attempts, <<cur, p, TRUE>>)
              /\ proxyLog' = [proxyLog EXCEPT ![p] = Append(@, cur)]
              /\ chan' = [chan EXCEPT ![p] = Append(@, cur)]

\* C20: a full but open primary channel is back-pressure, not failure: the
\* balancer is suspended on that send, does not fail over, receives no
\* further ingress transaction and sends nothing more to the consensus sink
\* until there is space; the transaction is then delivered to the primary;
\* no channel ever holds more items than its capacity.
C20_BackPressure == []BackPressureHolds /\ [][BackPressureStep]_vars

\* two proxies: T2 waits for the full channel of proxy 0 while the channel of
\* proxy 1 is empty and T3 waits on the ingress channel
C20_Witness ==
    /\ n = 2
    /\ SuspendedOnPrimary
    /\ cur = 2 /\ i = 2
    /\ chan[0] = <<0>> /\ chan[1] = <<>> /\ ~closed[1]
    /\ ingress = <<3>>
====
